---------------------------- MODULE Spec2Model ----------------------------
(***************************************************************************)
(* A model of plot_eval_results.py: the script that picks the latest       *)
(* eval/eval-results-*.json file, loads it, extracts the per-run series,   *)
(* computes rolling averages, renders and saves a figure and prints the    *)
(* summary.                                                                *)
(*                                                                         *)
(* Python strings are sequences of one-character strings, Python dicts are *)
(* functions from key strings to values (a missing key is a key outside    *)
(* DOMAIN), Python lists are sequences.  Numbers are integers; the         *)
(* quotients numpy computes are exact rationals [num, den] (floating-point *)
(* rounding is not modelled).                                              *)
(***************************************************************************)
EXTENDS Integers, Sequences, FiniteSets, TLC

VARIABLES
    pc,              \* the statement group the invocation is about to run
    fs,              \* the paths that exist in the directory eval/
    invocation,      \* how many times the script has been started
    log,             \* history: per invocation, the candidates and the file selected
    eval_files,      \* line 9
    json_file_path,  \* line 15
    timestamp_part,  \* line 18
    opened,          \* the files opened for reading, in order (line 19)
    data,            \* line 20
    series,          \* lines 25-34: the extracted lists, by variable name
    rolling,         \* lines 42-45: the rolling arrays, by variable name
    plots,           \* the (x, y) arguments of the rolling plot calls, lines 112, 123, 130
    images,          \* the image paths written by this invocation (line 152)
    stdout,          \* the lines printed by this invocation
    error,           \* the exception that ended the invocation, or "none"
    arg,             \* function-level checks: the arguments of the call
    result           \* function-level checks: what the call returned

vars == <<pc, fs, invocation, log, eval_files, json_file_path, timestamp_part,
          opened, data, series, rolling, plots, images, stdout, error, arg, result>>

program_vars == <<pc, fs, invocation, log, eval_files, json_file_path,
                  timestamp_part, opened, data, series, rolling, plots, images,
                  stdout, error>>

-----------------------------------------------------------------------------
(* Bounds of the model. *)

\* The longest 'runs' list a results file holds.
MaxRuns == 4

\* How many times the script is started over the same directory.
MaxInvocations == 2

\* The longest series handed to the rolling average on its own.
MaxSeries == 4

\* The largest window handed to the rolling average on its own.
MaxWindow == 3

\* The longest text put in front of a timestamp's ending.
MaxStem == 3

-----------------------------------------------------------------------------
(* Python str. *)

\* The characters used, in ascending code-point order.
Chars ==
    <<"+", "-", ".", "/", "0", "1", "2", "3", "4", "5", "6", "7", "8", "9", ":",
      "T", "Z", "_", "a", "b", "c", "d", "e", "f", "g", "h", "i", "j", "k", "l",
      "m", "n", "o", "p", "q", "r", "s", "t", "u", "v", "w", "x", "y", "z">>

\* ord(), up to the order of the code points.
CodePoint ==
    [c \in {Chars[i] : i \in DOMAIN Chars} |->
        CHOOSE i \in DOMAIN Chars : Chars[i] = c]

Ord(c) == CodePoint[c]

\* s[n:] and s[:n] for n >= 0: a slice past the end is empty.
Drop(s, n) == IF n >= Len(s) THEN <<>> ELSE SubSeq(s, n + 1, Len(s))

Take(s, n) == IF n >= Len(s) THEN s ELSE SubSeq(s, 1, n)

StartsWith(s, p) == Len(p) <= Len(s) /\ Take(s, Len(p)) = p

EndsWith(s, p) == Len(p) <= Len(s) /\ Drop(s, Len(s) - Len(p)) = p

\* A comparison of digit strings by the number they write.
RECURSIVE StrLessNumeric(_, _)
StrLessNumeric(s, t) ==
    IF Len(s) # Len(t) THEN Len(s) < Len(t)
    ELSE IF s = <<>> THEN FALSE
    ELSE IF Head(s) # Head(t) THEN Ord(Head(s)) < Ord(Head(t))
    ELSE StrLessNumeric(Tail(s), Tail(t))

\* str.__lt__: the first differing code point decides; a proper prefix is less.
RECURSIVE StrLess(_, _)
StrLess(s, t) ==
    IF s = <<>> THEN t # <<>>
    ELSE IF t = <<>> THEN FALSE
    ELSE IF Head(s) # Head(t) THEN Ord(Head(s)) < Ord(Head(t))
    ELSE StrLess(Tail(s), Tail(t))

\* str.split(sep) for a one-character sep: the pieces between the separators.
RECURSIVE Split(_, _)
Split(s, sep) ==
    IF \A i \in DOMAIN s : s[i] # sep THEN <<s>>
    ELSE LET i == CHOOSE k \in DOMAIN s :
                      s[k] = sep /\ \A j \in 1..(k - 1) : s[j] # sep
         IN  <<Take(s, i - 1)>> \o Split(Drop(s, i), sep)

\* str.replace(old, new), old not empty: every non-overlapping occurrence,
\* scanning from the left.
RECURSIVE Replace(_, _, _)
Replace(s, old, new) ==
    IF Len(s) < Len(old) THEN s
    ELSE IF StartsWith(s, old) THEN new \o Replace(Drop(s, Len(old)), old, new)
    ELSE <<Head(s)>> \o Replace(Tail(s), old, new)

\* os.path.dirname: the text before the last '/', without its trailing slashes
\* unless it is all slashes.
RECURSIVE RStripSlash(_)
RStripSlash(s) ==
    IF s # <<>> /\ s[Len(s)] = "/" THEN RStripSlash(Take(s, Len(s) - 1)) ELSE s

dirname(p) ==
    LET slashes == {i \in DOMAIN p : p[i] = "/"}
        i == IF slashes = {} THEN 0
             ELSE CHOOSE k \in slashes : \A j \in slashes : j <= k
        head == Take(p, i)
    IN  IF head # <<>> /\ \E j \in DOMAIN head : head[j] # "/"
        THEN RStripSlash(head) ELSE head

\* os.path.join(a, b) for a relative b.
join(a, b) ==
    IF a = <<>> \/ a[Len(a)] = "/" THEN a \o b ELSE a \o <<"/">> \o b

-----------------------------------------------------------------------------
(* The directory eval/ and the file selection, lines 9-18. *)

PatternPrefix ==
    <<"e", "v", "a", "l", "/", "e", "v", "a", "l", "-", "r", "e", "s", "u", "l",
      "t", "s", "-">>

DotJson == <<".", "j", "s", "o", "n">>

PlotPrefix ==
    <<"e", "v", "a", "l", "_", "r", "e", "s", "u", "l", "t", "s", "_", "p", "l",
      "o", "t", "-">>

DotPng == <<".", "p", "n", "g">>

FileA ==
    <<"e", "v", "a", "l", "/", "e", "v", "a", "l", "-", "r", "e", "s", "u", "l",
      "t", "s", "-", "a", "-", "1", "-", "9", ".", "j", "s", "o", "n">>

FileB ==
    <<"e", "v", "a", "l", "/", "e", "v", "a", "l", "-", "r", "e", "s", "u", "l",
      "t", "s", "-", "b", "-", "1", "-", "9", ".", "j", "s", "o", "n">>

FileC ==
    <<"e", "v", "a", "l", "/", "e", "v", "a", "l", "-", "r", "e", "s", "u", "l",
      "t", "s", "-", "a", "-", "2", "-", "1", "0", ".", "j", "s", "o", "n">>

FileBak ==
    <<"e", "v", "a", "l", "/", "e", "v", "a", "l", "-", "r", "e", "s", "u", "l",
      "t", "s", "-", "a", "-", "1", "-", "9", ".", "j", "s", "o", "n", ".", "b",
      "a", "k">>

\* The files the directory may hold when the script is first started.
InitialFiles == {FileA, FileB, FileC, FileBak}

\* A match of 'eval/eval-results-*' alone.
GlobMatchPrefixOnly(path) == StartsWith(path, PatternPrefix)

\* glob's match of 'eval/eval-results-*.json': the fixed head and tail around a
\* '*' that stands for any text without '/'.

GlobMatch(path) ==
    /\ Len(path) >= Len(PatternPrefix) + Len(DotJson)
    /\ StartsWith(path, PatternPrefix)
    /\ EndsWith(path, DotJson)
    /\ \A i \in (Len(PatternPrefix) + 1)..Len(path) : path[i] # "/"

\* The orders in which glob may enumerate a set of paths.
Orders(S) ==
    {p \in [1..Cardinality(S) -> S] : \A i, j \in DOMAIN p : i # j => p[i] # p[j]}

\* The sort key of line 14, and the same expression at line 18.
SortKey(x) ==
    LET pieces == Split(x, "-")
    IN  Replace(pieces[Len(pieces)], DotJson, <<>>)

\* One insertion of list.sort(key=..., reverse=True): x goes behind every
\* element whose key is not less than its own, so equal keys keep their order.
InsertReverse(sorted, x) ==
    LET less == {i \in DOMAIN sorted : StrLess(SortKey(sorted[i]), SortKey(x))}
        at == IF less = {} THEN Len(sorted) + 1
              ELSE CHOOSE i \in less : \A j \in less : i <= j
    IN  Take(sorted, at - 1) \o <<x>> \o Drop(sorted, at - 1)

RECURSIVE SortReverse(_)
SortReverse(files) ==
    IF files = <<>> THEN <<>>
    ELSE InsertReverse(SortReverse(Take(files, Len(files) - 1)), files[Len(files)])

EmptyDict == [k \in {} |-> 0]

\* Lines 9-11.
Glob ==
    /\ pc = "glob"
    /\ \E found \in Orders({p \in fs : GlobMatch(p)}) :
          /\ eval_files' = found
          /\ IF found = <<>>
             THEN pc' = "failed" /\ error' = "FileNotFoundError"
             ELSE pc' = "sort" /\ error' = error
    /\ UNCHANGED <<fs, invocation, log, json_file_path, timestamp_part, opened,
                   data, series, rolling, plots, images, stdout, arg, result>>

\* Lines 13-18.
SelectLatest ==
    /\ pc = "sort"
    /\ eval_files' = SortReverse(eval_files)
    /\ json_file_path' = eval_files'[1]
    /\ timestamp_part' = SortKey(json_file_path')
    /\ log' = Append(log, [candidates |-> {eval_files[i] : i \in DOMAIN eval_files},
                           selected |-> json_file_path',
                           saved |-> FALSE])
    /\ pc' = "load"
    /\ UNCHANGED <<fs, invocation, opened, data, series, rolling, plots, images,
                   stdout, error, arg, result>>

-----------------------------------------------------------------------------
(* The results file: json.load and lines 19-22. *)

Without(d, k) == [x \in DOMAIN d \ {k} |-> d[x]]

TsZulu ==
    <<"2", "0", "2", "4", "-", "0", "1", "-", "0", "1", "T", "0", "0", ":", "0",
      "0", ":", "0", "0", "Z">>

TsOffset ==
    <<"2", "0", "2", "4", "-", "0", "1", "-", "0", "2", "T", "0", "0", ":", "0",
      "0", ":", "0", "0", "+", "0", "0", ":", "0", "0">>

TsBad == <<"y", "e", "s", "t", "e", "r", "d", "a", "y">>

UtcOffset == <<"+", "0", "0", ":", "0", "0">>

\* Two complete runs; their run numbers are out of order on purpose.
RunA ==
    [runNumber |-> 2, score |-> 3, timestamp |-> TsZulu,
     details |-> [nodesCreated |-> 6, edgesCreated |-> 3, propertyCoverage |-> 1,
                  relationshipAccuracy |-> 0, averagePropertiesPerNode |-> 2]]

RunB ==
    [runNumber |-> 1, score |-> 0, timestamp |-> TsOffset,
     details |-> [nodesCreated |-> 0, edgesCreated |-> 6, propertyCoverage |-> 0,
                  relationshipAccuracy |-> 1, averagePropertiesPerNode |-> 5]]

GoodRuns == {RunA, RunB}

\* Runs that break one of the statements of lines 25-34.
BadRuns ==
    { Without(RunA, "score"),
      [RunB EXCEPT !.timestamp = TsBad],
      [RunA EXCEPT !.details = Without(@, "edgesCreated")] }

SeqsUpTo(S, n) == UNION {[1..k -> S] : k \in 0..n}

\* The 'runs' lists: every list of complete runs, and the short lists with one
\* broken run at any place.
RunLists ==
    SeqsUpTo(GoodRuns, MaxRuns)
    \cup { Take(s, i) \o <<b>> \o Drop(s, i) :
             s \in SeqsUpTo(GoodRuns, 1), i \in 0..1, b \in BadRuns }

FullSummary ==
    [averageScore |-> 2, minScore |-> 0, maxScore |-> 3,
     averageMetrics |-> [nodesCreated |-> 3, edgesCreated |-> 4,
                         propertyCoverage |-> 1, relationshipAccuracy |-> 1],
     standardDeviation |-> 1, consistencyScore |-> 1,
     mainProblems |-> <<"problem 1", "problem 2">>,
     strengths |-> <<"strength 1">>]

\* The summary with one of its keys, or of averageMetrics' keys, left out.
PartialSummaries ==
    { Without(FullSummary, k) : k \in DOMAIN FullSummary }
    \cup { [FullSummary EXCEPT !.averageMetrics = Without(@, k)] :
             k \in DOMAIN FullSummary.averageMetrics }

UniformRuns(n) == [i \in 1..n |-> RunA]

\* Line 41.
window_size == 3

\* What the selected file may hold: text that is not JSON, or a JSON object.
Contents ==
    { [wellformed |-> FALSE, value |-> EmptyDict] }
    \cup { [wellformed |-> TRUE, value |-> v] :
             v \in { [summary |-> FullSummary] }
                   \cup { [runs |-> UniformRuns(MaxRuns)] }
                   \cup { [runs |-> r, summary |-> FullSummary] : r \in RunLists }
                   \cup { [runs |-> UniformRuns(window_size), summary |-> s] :
                            s \in PartialSummaries } }

\* Lines 19-22.
Load ==
    /\ pc = "load"
    /\ opened' = Append(opened, json_file_path)
    /\ \E c \in Contents :
          IF ~c.wellformed
          THEN /\ pc' = "failed" /\ error' = "JSONDecodeError"
               /\ data' = data
          ELSE /\ data' = c.value
               /\ IF "runs" \in DOMAIN c.value
                  THEN pc' = "extract" /\ error' = error
                  ELSE pc' = "failed" /\ error' = "KeyError"
    /\ UNCHANGED <<fs, invocation, log, eval_files, json_file_path,
                   timestamp_part, series, rolling, plots, images, stdout, arg,
                   result>>

-----------------------------------------------------------------------------
(* Series extraction, lines 25-34. *)

Digits == {"0", "1", "2", "3", "4", "5", "6", "7", "8", "9"}

RECURSIVE Number(_)
Number(s) ==
    IF s = <<>> THEN 0
    ELSE 10 * Number(Take(s, Len(s) - 1)) + (Ord(s[Len(s)]) - Ord("0"))

AllDigits(s) == \A i \in DOMAIN s : s[i] \in Digits

\* datetime.fromisoformat for the forms YYYY-MM-DD, YYYY-MM-DD?HH:MM:SS and
\* YYYY-MM-DD?HH:MM:SS+HH:MM (any one character between date and time).
FromIsoFormat(s) ==
    LET n == Len(s)
        dateOk == /\ n >= 10
                  /\ AllDigits(SubSeq(s, 1, 4)) /\ s[5] = "-"
                  /\ AllDigits(SubSeq(s, 6, 7)) /\ s[8] = "-"
                  /\ AllDigits(SubSeq(s, 9, 10))
                  /\ Number(SubSeq(s, 1, 4)) \in 1..9999
                  /\ Number(SubSeq(s, 6, 7)) \in 1..12
                  /\ Number(SubSeq(s, 9, 10)) \in 1..31
        timeOk == /\ n >= 19
                  /\ AllDigits(SubSeq(s, 12, 13)) /\ s[14] = ":"
                  /\ AllDigits(SubSeq(s, 15, 16)) /\ s[17] = ":"
                  /\ AllDigits(SubSeq(s, 18, 19))
                  /\ Number(SubSeq(s, 12, 13)) < 24
                  /\ Number(SubSeq(s, 15, 16)) < 60
                  /\ Number(SubSeq(s, 18, 19)) < 60
        zoneOk == /\ n = 25
                  /\ s[20] \in {"+", "-"}
                  /\ AllDigits(SubSeq(s, 21, 22)) /\ s[23] = ":"
                  /\ AllDigits(SubSeq(s, 24, 25))
                  /\ Number(SubSeq(s, 21, 22)) < 24
                  /\ Number(SubSeq(s, 24, 25)) < 60
        ok == \/ n = 10 /\ dateOk
              \/ n = 19 /\ dateOk /\ timeOk
              \/ n = 25 /\ dateOk /\ timeOk /\ zoneOk
        sign == IF n = 25 /\ s[20] = "-" THEN -1 ELSE 1
    IN  IF ~ok THEN [ok |-> FALSE, value |-> EmptyDict]
        ELSE [ok |-> TRUE,
              value |->
                [year |-> Number(SubSeq(s, 1, 4)),
                 month |-> Number(SubSeq(s, 6, 7)),
                 day |-> Number(SubSeq(s, 9, 10)),
                 hour |-> IF n >= 19 THEN Number(SubSeq(s, 12, 13)) ELSE 0,
                 minute |-> IF n >= 19 THEN Number(SubSeq(s, 15, 16)) ELSE 0,
                 second |-> IF n >= 19 THEN Number(SubSeq(s, 18, 19)) ELSE 0,
                 aware |-> (n = 25),
                 utcoffset |-> IF n = 25
                               THEN sign * (60 * Number(SubSeq(s, 21, 22))
                                            + Number(SubSeq(s, 24, 25)))
                               ELSE 0]]

\* Line 27's argument to the parser.
Normalise(timestamp) == Replace(timestamp, <<"Z">>, UtcOffset)

\* The statements of lines 25-34 in order: the variable assigned, the keys
\* looked up in each run, and whether the value is parsed as a timestamp.
ExtractStatements ==
    << [var |-> "run_numbers", path |-> <<"runNumber">>, parse |-> FALSE],
       [var |-> "scores", path |-> <<"score">>, parse |-> FALSE],
       [var |-> "timestamps", path |-> <<"timestamp">>, parse |-> TRUE],
       [var |-> "nodes_created", path |-> <<"details", "nodesCreated">>, parse |-> FALSE],
       [var |-> "edges_created", path |-> <<"details", "edgesCreated">>, parse |-> FALSE],
       [var |-> "property_coverage", path |-> <<"details", "propertyCoverage">>, parse |-> FALSE],
       [var |-> "relationship_accuracy", path |-> <<"details", "relationshipAccuracy">>, parse |-> FALSE],
       [var |-> "properties_per_node", path |-> <<"details", "averagePropertiesPerNode">>, parse |-> FALSE] >>

\* d[k1][k2]...: the value, or the KeyError of the first missing key.
RECURSIVE Subscript(_, _)
Subscript(d, path) ==
    IF path = <<>> THEN [raised |-> "none", value |-> d]
    ELSE IF Head(path) \notin DOMAIN d THEN [raised |-> "KeyError", value |-> <<>>]
    ELSE Subscript(d[Head(path)], Tail(path))

\* The element expression of one comprehension, for one run.
Element(run, stmt) ==
    LET got == Subscript(run, stmt.path)
    IN  IF got.raised # "none" \/ ~stmt.parse THEN got
        ELSE LET parsed == FromIsoFormat(Normalise(got.value))
             IN  IF parsed.ok THEN [raised |-> "none", value |-> parsed.value]
                 ELSE [raised |-> "ValueError", value |-> <<>>]

\* [expr for run in sorted(runs, key=runNumber)].
RECURSIVE ComprehensionSortedByRunNumber(_, _)
ComprehensionSortedByRunNumber(runs, stmt) ==
    IF runs = <<>> THEN [raised |-> "none", value |-> <<>>]
    ELSE LET least == CHOOSE i \in DOMAIN runs :
                          \A j \in DOMAIN runs :
                              \/ runs[i].runNumber < runs[j].runNumber
                              \/ runs[i].runNumber = runs[j].runNumber /\ i <= j
             first == Element(runs[least], stmt)
             rest == ComprehensionSortedByRunNumber(
                         Take(runs, least - 1) \o Drop(runs, least), stmt)
         IN  IF first.raised # "none" THEN first
             ELSE IF rest.raised # "none" THEN rest
             ELSE [raised |-> "none", value |-> <<first.value>> \o rest.value]

\* [expr for run in runs]: the runs are visited in list order, each appends one
\* element, and the first exception ends the comprehension.
RECURSIVE Comprehension(_, _)
Comprehension(runs, stmt) ==
    IF runs = <<>> THEN [raised |-> "none", value |-> <<>>]
    ELSE LET first == Element(Head(runs), stmt)
             rest == Comprehension(Tail(runs), stmt)
         IN  IF first.raised # "none" THEN first
             ELSE IF rest.raised # "none" THEN rest
             ELSE [raised |-> "none", value |-> <<first.value>> \o rest.value]

\* Binding name to value in the script's namespace.
Assign(namespace, name, value) ==
    [x \in DOMAIN namespace \cup {name} |->
        IF x = name THEN value ELSE namespace[x]]

\* Statements k.. of lines 25-34 run over the namespace built so far: each
\* assigns its list, and the first exception leaves the later ones unassigned.
RECURSIVE RunStatements(_, _, _)
RunStatements(runs, k, namespace) ==
    IF k > Len(ExtractStatements) THEN [raised |-> "none", value |-> namespace]
    ELSE LET got == Comprehension(runs, ExtractStatements[k])
         IN  IF got.raised # "none" THEN [raised |-> got.raised, value |-> namespace]
             ELSE RunStatements(runs, k + 1,
                                Assign(namespace, ExtractStatements[k].var, got.value))

\* Lines 25-34.
ExtractSeries ==
    /\ pc = "extract"
    /\ LET got == RunStatements(data["runs"], 1, EmptyDict)
       IN  /\ series' = got.value
           /\ error' = got.raised
           /\ pc' = IF got.raised = "none" THEN "rolling" ELSE "failed"
    /\ UNCHANGED <<fs, invocation, log, eval_files, json_file_path,
                   timestamp_part, opened, data, rolling, plots, images, stdout,
                   arg, result>>

-----------------------------------------------------------------------------
(* Rolling averages, lines 41-45. *)

RECURSIVE GCD(_, _)
GCD(a, b) == IF b = 0 THEN a ELSE GCD(b, a % b)

\* The rational n/d, d > 0, in lowest terms.
Rat(n, d) ==
    LET g == GCD(IF n < 0 THEN -n ELSE n, d)
    IN  [num |-> n \div g, den |-> d \div g]

RatAdd(x, y) == Rat(x.num * y.den + y.num * x.den, x.den * y.den)

RatMul(x, y) == Rat(x.num * y.num, x.den * y.den)

\* np.asarray of a list of integers.
AsArray(list) == [i \in DOMAIN list |-> Rat(list[i], 1)]

\* np.ones(w)/(w + 1).
KernelOffByOne(w) == [i \in 1..w |-> Rat(1, w + 1)]

\* np.ones(w)/w.
Kernel(w) == [i \in 1..w |-> Rat(1, w)]

RECURSIVE RatSum(_)
RatSum(terms) ==
    IF terms = <<>> THEN Rat(0, 1) ELSE RatAdd(Head(terms), RatSum(Tail(terms)))

\* np.convolve(a, v, mode='valid'): an empty argument raises; the longer array
\* takes the place of a; element k is the sum over j of v[j] * a[k + M - 1 - j]
\* (0-based) for the N - M + 1 places at which v lies inside a.
ConvolveValid(a, v) ==
    IF a = <<>> \/ v = <<>> THEN [raised |-> "ValueError", value |-> <<>>]
    ELSE LET long == IF Len(v) > Len(a) THEN v ELSE a
             short == IF Len(v) > Len(a) THEN a ELSE v
             N == Len(long)
             M == Len(short)
         IN  [raised |-> "none",
              value |->
                [k \in 1..(N - M + 1) |->
                    RatSum([j \in 1..M |-> RatMul(short[j], long[k + M - j])])]]

\* The expression of lines 42-44 for one series and a window.
RollingAverage(list, w) == ConvolveValid(AsArray(list), Kernel(w))

\* Lines 41-45.
ComputeRolling ==
    /\ pc = "rolling"
    /\ LET s == RollingAverage(series["scores"], window_size)
           n == RollingAverage(series["nodes_created"], window_size)
           e == RollingAverage(series["edges_created"], window_size)
           r1 == Assign(EmptyDict, "rolling_scores", s.value)
           r2 == Assign(r1, "rolling_nodes", n.value)
           r3 == Assign(r2, "rolling_edges", e.value)
           r4 == Assign(r3, "rolling_run_numbers",
                        Drop(series["run_numbers"], window_size - 1))
       IN  IF s.raised # "none"
           THEN rolling' = rolling /\ error' = s.raised /\ pc' = "failed"
           ELSE IF n.raised # "none"
           THEN rolling' = r1 /\ error' = n.raised /\ pc' = "failed"
           ELSE IF e.raised # "none"
           THEN rolling' = r2 /\ error' = e.raised /\ pc' = "failed"
           ELSE rolling' = r4 /\ error' = error /\ pc' = "render"
    /\ UNCHANGED <<fs, invocation, log, eval_files, json_file_path,
                   timestamp_part, opened, data, series, plots, images, stdout,
                   arg, result>>

-----------------------------------------------------------------------------
(* The figure, lines 47-150. *)

\* Axes.plot(x, y) raises unless x and y have the same length.
PlotRaises(x, y) == Len(x) # Len(y)

\* The rolling plot calls of lines 112, 123 and 130, in order.
RollingPlots ==
    << [x |-> rolling["rolling_run_numbers"], y |-> rolling["rolling_scores"]],
       [x |-> rolling["rolling_run_numbers"], y |-> rolling["rolling_nodes"]],
       [x |-> rolling["rolling_run_numbers"], y |-> rolling["rolling_edges"]] >>

\* Lines 47-150: line 53 reads data['summary']['averageScore'] first; the plots
\* of the extracted lists against run_numbers have equal lengths; the rolling
\* plots are drawn in order until one raises.
Render ==
    /\ pc = "render"
    /\ LET avg == Subscript(data, <<"summary", "averageScore">>)
           bad == {i \in DOMAIN RollingPlots :
                      PlotRaises(RollingPlots[i].x, RollingPlots[i].y)}
           stop == IF bad = {} THEN Len(RollingPlots) + 1
                   ELSE CHOOSE i \in bad : \A j \in bad : i <= j
       IN  IF avg.raised # "none"
           THEN plots' = plots /\ error' = avg.raised /\ pc' = "failed"
           ELSE /\ plots' = Take(RollingPlots, stop - 1)
                /\ IF bad = {}
                   THEN error' = error /\ pc' = "save"
                   ELSE error' = "ValueError" /\ pc' = "failed"
    /\ UNCHANGED <<fs, invocation, log, eval_files, json_file_path,
                   timestamp_part, opened, data, series, rolling, images, stdout,
                   arg, result>>

\* Line 151.
output_image_path ==
    join(dirname(json_file_path), PlotPrefix \o timestamp_part \o DotPng)

\* Lines 151-154.
SaveFig ==
    /\ pc = "save"
    /\ fs' = fs \cup {output_image_path}
    /\ images' = Append(images, output_image_path)
    /\ stdout' = Append(stdout, "Plot saved to")
    /\ log' = [log EXCEPT ![Len(log)].saved = TRUE]
    /\ pc' = "print"
    /\ UNCHANGED <<invocation, eval_files, json_file_path, timestamp_part,
                   opened, data, series, rolling, plots, error, arg, result>>

-----------------------------------------------------------------------------
(* The summary, lines 156-174. *)

\* The print statements in order: the text, and the keys of data['summary']
\* the statement reads, in the order it reads them.  A loop statement reads
\* its list and then prints one line per item.
PrintStatements ==
    << [text |-> "Loaded evaluation results from", reads |-> <<>>, loop |-> FALSE],
       [text |-> "Summary Statistics:", reads |-> <<>>, loop |-> FALSE],
       [text |-> "Average Score", reads |-> << <<"averageScore">> >>, loop |-> FALSE],
       [text |-> "Score Range",
        reads |-> << <<"minScore">>, <<"maxScore">> >>, loop |-> FALSE],
       [text |-> "Average Nodes Created",
        reads |-> << <<"averageMetrics", "nodesCreated">> >>, loop |-> FALSE],
       [text |-> "Average Edges Created",
        reads |-> << <<"averageMetrics", "edgesCreated">> >>, loop |-> FALSE],
       [text |-> "Average Property Coverage",
        reads |-> << <<"averageMetrics", "propertyCoverage">> >>, loop |-> FALSE],
       [text |-> "Average Relationship Accuracy",
        reads |-> << <<"averageMetrics", "relationshipAccuracy">> >>, loop |-> FALSE],
       [text |-> "Standard Deviation",
        reads |-> << <<"standardDeviation">> >>, loop |-> FALSE],
       [text |-> "Consistency Score",
        reads |-> << <<"consistencyScore">> >>, loop |-> FALSE],
       [text |-> "Main Problems:", reads |-> <<>>, loop |-> FALSE],
       [text |-> "- problem", reads |-> << <<"mainProblems">> >>, loop |-> TRUE],
       [text |-> "Strengths:", reads |-> <<>>, loop |-> FALSE],
       [text |-> "- strength", reads |-> << <<"strengths">> >>, loop |-> TRUE] >>

\* What one statement prints, or the exception it raises before printing.
Printed(stmt) ==
    LET got == [i \in DOMAIN stmt.reads |->
                   Subscript(data, <<"summary">> \o stmt.reads[i])]
    IN  IF \E i \in DOMAIN got : got[i].raised # "none"
        THEN [raised |-> "KeyError", value |-> <<>>]
        ELSE IF stmt.loop
        THEN [raised |-> "none",
              value |-> [i \in DOMAIN got[1].value |-> stmt.text]]
        ELSE [raised |-> "none", value |-> <<stmt.text>>]

\* Statements k.. run after the lines printed so far.
RECURSIVE PrintFrom(_, _)
PrintFrom(k, printed) ==
    IF k > Len(PrintStatements) THEN [raised |-> "none", value |-> printed]
    ELSE LET got == Printed(PrintStatements[k])
         IN  IF got.raised # "none" THEN [raised |-> got.raised, value |-> printed]
             ELSE PrintFrom(k + 1, printed \o got.value)

\* Lines 156-174.
PrintSummary ==
    /\ pc = "print"
    /\ LET got == PrintFrom(1, stdout)
       IN  /\ stdout' = got.value
           /\ error' = got.raised
           /\ pc' = IF got.raised = "none" THEN "done" ELSE "failed"
    /\ UNCHANGED <<fs, invocation, log, eval_files, json_file_path,
                   timestamp_part, opened, data, series, rolling, plots, images,
                   arg, result>>

\* The script is started again over the directory the last invocation left.
Restart ==
    /\ pc \in {"done", "failed"}
    /\ invocation < MaxInvocations
    /\ invocation' = invocation + 1
    /\ pc' = "glob"
    /\ eval_files' = <<>>
    /\ json_file_path' = <<>>
    /\ timestamp_part' = <<>>
    /\ opened' = <<>>
    /\ data' = EmptyDict
    /\ series' = EmptyDict
    /\ rolling' = EmptyDict
    /\ plots' = <<>>
    /\ images' = <<>>
    /\ stdout' = <<>>
    /\ error' = "none"
    /\ UNCHANGED <<fs, log, arg, result>>

Init ==
    /\ pc = "glob"
    /\ fs \in SUBSET InitialFiles
    /\ invocation = 1
    /\ log = <<>>
    /\ eval_files = <<>>
    /\ json_file_path = <<>>
    /\ timestamp_part = <<>>
    /\ opened = <<>>
    /\ data = EmptyDict
    /\ series = EmptyDict
    /\ rolling = EmptyDict
    /\ plots = <<>>
    /\ images = <<>>
    /\ stdout = <<>>
    /\ error = "none"
    /\ arg = EmptyDict
    /\ result = EmptyDict

Next ==
    \/ Glob
    \/ SelectLatest
    \/ Load
    \/ ExtractSeries
    \/ ComputeRolling
    \/ Render
    \/ SaveFig
    \/ PrintSummary
    \/ Restart

\* The script, started up to MaxInvocations times over one directory.
Spec == Init /\ [][Next]_vars

-----------------------------------------------------------------------------
(* The rolling average on its own: lines 41-45 over drawn series, and the   *)
(* expression of lines 42-44 over a drawn series and window.  The series    *)
(* hold one value or more; the empty 'runs' list is among Spec's files.     *)

SeriesValues == {1, 2, 4, 6}

Reverse(s) == [i \in DOMAIN s |-> s[Len(s) + 1 - i]]

CallRollingAverage ==
    /\ DOMAIN result = {}
    /\ result' = RollingAverage(arg.series, arg.window)
    /\ UNCHANGED <<program_vars, arg>>

InitRolling ==
    /\ arg \in [series : SeqsUpTo(SeriesValues, MaxSeries) \ {<<>>},
                 window : 1..MaxWindow]
    /\ result = EmptyDict
    /\ pc = "rolling"
    /\ series = [run_numbers |-> Reverse([i \in DOMAIN arg.series |-> i]),
                 scores |-> arg.series,
                 timestamps |-> [i \in DOMAIN arg.series |->
                                    FromIsoFormat(TsOffset).value],
                 nodes_created |-> Reverse(arg.series),
                 edges_created |-> [i \in DOMAIN arg.series |-> 2 * arg.series[i]],
                 property_coverage |-> [i \in DOMAIN arg.series |-> 1],
                 relationship_accuracy |-> [i \in DOMAIN arg.series |-> 0],
                 properties_per_node |-> arg.series]
    /\ fs = {FileA}
    /\ invocation = 1
    /\ log = <<[candidates |-> {FileA}, selected |-> FileA, saved |-> FALSE]>>
    /\ eval_files = <<FileA>>
    /\ json_file_path = FileA
    /\ timestamp_part = SortKey(FileA)
    /\ opened = <<FileA>>
    /\ data = [summary |-> FullSummary]
    /\ rolling = EmptyDict
    /\ plots = <<>>
    /\ images = <<>>
    /\ stdout = <<>>
    /\ error = "none"

NextRolling ==
    \/ CallRollingAverage
    \/ ComputeRolling

SpecRolling == InitRolling /\ [][NextRolling]_vars

-----------------------------------------------------------------------------
(* The timestamp normalisation of line 27 on its own. *)

DateText == <<"2", "0", "2", "4", "-", "0", "1", "-", "0", "1">>

TimeText == <<"0", "0", ":", "0", "0", ":", "0", "0">>

\* The texts in front of a timestamp's ending: a date and a time around one
\* character, and every short text over three characters.
Stems ==
    { DateText \o <<c>> \o TimeText : c \in {"T", "Z"} }
    \cup SeqsUpTo({"Z", "T", "0"}, MaxStem)

Endings == { <<>>, <<"Z">>, UtcOffset }

\* Line 27 for one run's timestamp.
CallNormalise ==
    /\ DOMAIN result = {}
    /\ result' = [normalised |-> Normalise(arg.timestamp),
                  parsed |-> FromIsoFormat(Normalise(arg.timestamp))]
    /\ UNCHANGED <<program_vars, arg>>

InitNormalise ==
    /\ arg \in { [timestamp |-> stem \o ending] : stem \in Stems, ending \in Endings }
    /\ result = EmptyDict
    /\ pc = "extract"
    /\ fs = {FileA}
    /\ invocation = 1
    /\ log = <<[candidates |-> {FileA}, selected |-> FileA, saved |-> FALSE]>>
    /\ eval_files = <<FileA>>
    /\ json_file_path = FileA
    /\ timestamp_part = SortKey(FileA)
    /\ opened = <<FileA>>
    /\ data = [runs |-> <<[RunA EXCEPT !.timestamp = arg.timestamp]>>,
               summary |-> FullSummary]
    /\ series = EmptyDict
    /\ rolling = EmptyDict
    /\ plots = <<>>
    /\ images = <<>>
    /\ stdout = <<>>
    /\ error = "none"

NextNormalise ==
    \/ CallNormalise
    \/ ExtractSeries

SpecNormalise == InitNormalise /\ [][NextNormalise]_vars

-----------------------------------------------------------------------------
(* Properties. *)

\* The paths of eval/ that match eval/eval-results-*.json.
Candidates == fs \cap {FileA, FileB, FileC}

\* The text of a path after its last '-', with '.json' taken out.
TimestampSegment(path) ==
    LET dashes == {i \in DOMAIN path : path[i] = "-"}
        last == IF dashes = {} THEN 0
                ELSE CHOOSE i \in dashes : \A j \in dashes : j <= i
    IN  Replace(Drop(path, last), DotJson, <<>>)

\* s < t in lexicographic order of code points.
LexLess(s, t) ==
    \E k \in 1..Len(t) :
        /\ \A j \in 1..(k - 1) : j <= Len(s) /\ s[j] = t[j]
        /\ k > Len(s) \/ Ord(s[k]) < Ord(t[k])

\* A file has been selected by the current invocation.
Selected == json_file_path # <<>>

\* C1: once a file is selected, it is eval_files[0], it is one of the
\* candidates, and no candidate's timestamp segment is lexicographically
\* greater than its own (text order: "9" is above "10").
C1_SelectsLexicographicMax ==
    Selected =>
        /\ json_file_path = eval_files[1]
        /\ json_file_path \in Candidates
        /\ \A c \in Candidates :
              ~LexLess(TimestampSegment(json_file_path), TimestampSegment(c))

\* C1's case: a file with segment "9" is selected although a candidate with
\* the numerically greater segment "10", and another "9", are present.
C1_Witness ==
    /\ pc = "load"
    /\ json_file_path = FileA
    /\ {FileB, FileC} \subseteq fs

\* C2: when no file matches, every state after the glob is the failed state
\* with FileNotFoundError, and nothing was opened, extracted, computed,
\* written or printed.
C2_EmptyCandidatesOnlyNotFound ==
    (pc # "glob" /\ Candidates = {}) =>
        /\ pc = "failed"
        /\ error = "FileNotFoundError"
        /\ opened = <<>>
        /\ DOMAIN data = {}
        /\ DOMAIN series = {}
        /\ DOMAIN rolling = {}
        /\ plots = <<>>
        /\ images = <<>>
        /\ fs \subseteq InitialFiles
        /\ stdout = <<>>

\* C2's case: the invocation has failed with FileNotFoundError in a directory
\* that holds a file, but none that matches.
C2_Witness ==
    /\ pc = "failed"
    /\ error = "FileNotFoundError"
    /\ fs = {FileBak}

RECURSIVE SumOf(_)
SumOf(list) == IF list = <<>> THEN 0 ELSE Head(list) + SumOf(Tail(list))

Max(a, b) == IF a >= b THEN a ELSE b

\* The call of the rolling average has returned or raised.
Returned == DOMAIN result # {}

\* out[i] is the mean of list[i..i+w-1], for every place i of out, and out
\* has one place per window of list.
MeansOf(out, list, w) ==
    /\ DOMAIN out = 1..(Len(list) - w + 1)
    /\ \A i \in DOMAIN out :
          w * out[i].num = SumOf(SubSeq(list, i, i + w - 1)) * out[i].den

\* C3: the rolling average of a series of length n >= 0 under a window w >= 1
\* has length max(0, n - w + 1); with the script's window of 3, a series of
\* 1 or 2 runs gives an empty rolling series.
C3_RollingLength ==
    /\ Returned =>
          /\ result.raised = "none"
          /\ Len(result.value) = Max(0, Len(arg.series) - arg.window + 1)
    /\ pc # "rolling" =>
          /\ pc = "render"
          /\ \A name \in {"rolling_scores", "rolling_nodes", "rolling_edges"} :
                Len(rolling[name]) = Max(0, Len(series["scores"]) - window_size + 1)

\* C4: for a series at least as long as the window, output element i is the
\* mean of the w inputs from place i on; window 1 returns the input, the
\* rolling average of [2,4,6] under window 3 is [4], and the script's three
\* rolling arrays are each the means of their own series.
C4_RollingMeans ==
    /\ (Returned /\ Len(arg.series) >= arg.window) =>
          /\ result.raised = "none"
          /\ MeansOf(result.value, arg.series, arg.window)
          /\ arg.window = 1 =>
                result.value = [i \in DOMAIN arg.series |->
                                   [num |-> arg.series[i], den |-> 1]]
          /\ (arg.series = <<2, 4, 6>> /\ arg.window = 3) =>
                result.value = <<[num |-> 4, den |-> 1]>>
    /\ (pc # "rolling" /\ Len(series["scores"]) >= window_size) =>
          /\ pc = "render"
          /\ MeansOf(rolling["rolling_scores"], series["scores"], window_size)
          /\ MeansOf(rolling["rolling_nodes"], series["nodes_created"], window_size)
          /\ MeansOf(rolling["rolling_edges"], series["edges_created"], window_size)

\* C4's case: the rolling average of [2,4,6] under window 3 has returned, and
\* the script has computed its rolling arrays over a series of three runs.
C4_Witness ==
    /\ Returned
    /\ arg.series = <<2, 4, 6>>
    /\ arg.window = 3
    /\ pc = "render"
    /\ Len(rolling["rolling_nodes"]) = 1

\* The eight lists of lines 25-34 and the keys each takes from a run.
SeriesNames ==
    {"run_numbers", "scores", "timestamps", "nodes_created", "edges_created",
     "property_coverage", "relationship_accuracy", "properties_per_node"}

DetailKeys ==
    {"nodesCreated", "edgesCreated", "propertyCoverage", "relationshipAccuracy",
     "averagePropertiesPerNode"}

\* A run that carries every required field, with a timestamp that parses.
CompleteRun(run) ==
    /\ {"runNumber", "score", "timestamp", "details"} \subseteq DOMAIN run
    /\ DetailKeys \subseteq DOMAIN run.details
    /\ FromIsoFormat(Normalise(run.timestamp)).ok

\* C5: the extraction of a result set whose runs are all complete succeeds and
\* assigns all eight lists, each with one element per run, element i of each
\* being the field of run i of the file: same order, nothing dropped.
C5_ExtractionKeepsFileOrder ==
    [][ (pc = "extract" /\ pc' # "extract"
         /\ \A i \in DOMAIN data["runs"] : CompleteRun(data["runs"][i])) =>
            LET runs == data["runs"]
                got == series'
            IN  /\ pc' = "rolling"
                /\ DOMAIN got = SeriesNames
                /\ \A name \in SeriesNames : Len(got[name]) = Len(runs)
                /\ \A i \in DOMAIN runs :
                      /\ got["run_numbers"][i] = runs[i].runNumber
                      /\ got["scores"][i] = runs[i].score
                      /\ got["timestamps"][i] =
                            FromIsoFormat(Normalise(runs[i].timestamp)).value
                      /\ got["nodes_created"][i] = runs[i].details.nodesCreated
                      /\ got["edges_created"][i] = runs[i].details.edgesCreated
                      /\ got["property_coverage"][i] =
                            runs[i].details.propertyCoverage
                      /\ got["relationship_accuracy"][i] =
                            runs[i].details.relationshipAccuracy
                      /\ got["properties_per_node"][i] =
                            runs[i].details.averagePropertiesPerNode ]_vars

\* C5's case: a file whose run numbers are 2, 1, 2 (out of order, repeated)
\* has been extracted.
C5_Witness ==
    /\ pc = "rolling"
    /\ data["runs"] = <<RunA, RunB, RunA>>
    /\ series["run_numbers"] = <<2, 1, 2>>

\* C6: an invocation that ends in an error has written no image and printed
\* no line.
C6_NoPartialResultOnError ==
    error # "none" => (images = <<>> /\ stdout = <<>>)

\* C7: two invocations over the same set of candidates select the same file,
\* whatever the order glob listed them in.
C7_SelectionBySetAlone ==
    \A i, j \in DOMAIN log :
        log[i].candidates = log[j].candidates => log[i].selected = log[j].selected

\* C8: a written image is eval/eval_results_plot-<T>.png with T the selected
\* file's timestamp segment; an invocation writes at most one image, and
\* exactly one when it succeeds; the image is no candidate; and the
\* invocation after one that wrote its image selects the same file.
C8_OutputNameAndRerun ==
    /\ \A i \in DOMAIN images :
          /\ images[i] = <<"e", "v", "a", "l", "/">> \o PlotPrefix
                             \o TimestampSegment(json_file_path) \o DotPng
          /\ timestamp_part = TimestampSegment(json_file_path)
          /\ images[i] \in fs
          /\ ~GlobMatch(images[i])
    /\ Len(images) <= 1
    /\ pc = "done" => Len(images) = 1
    /\ \A p \in fs : GlobMatch(p) <=> p \in Candidates
    /\ \A i \in DOMAIN log :
          (i > 1 /\ log[i - 1].saved) => log[i].selected = log[i - 1].selected

\* The rolling arrays of lines 42-45 have all been assigned.
RollingComputed ==
    DOMAIN rolling =
        {"rolling_scores", "rolling_nodes", "rolling_edges", "rolling_run_numbers"}

\* C9: for a non-empty result set, run_numbers[2:] is as long as each rolling
\* array, its element i is the run number at input place i + 2, and these are
\* the pairs the rolling plots draw.
C9_RollingAlignment ==
    (RollingComputed /\ Len(series["scores"]) >= 1) =>
        LET x == rolling["rolling_run_numbers"]
        IN  /\ \A name \in {"rolling_scores", "rolling_nodes", "rolling_edges"} :
                  Len(rolling[name]) = Len(x)
            /\ \A i \in DOMAIN x : x[i] = series["run_numbers"][i + window_size - 1]
            /\ pc \in {"save", "print", "done"} =>
                  plots = << [x |-> x, y |-> rolling["rolling_scores"]],
                             [x |-> x, y |-> rolling["rolling_nodes"]],
                             [x |-> x, y |-> rolling["rolling_edges"]] >>

\* C10: a timestamp that ends in 'Z' reaches the parser with that one 'Z'
\* replaced by '+00:00' and nothing else changed, and a timestamp that ends
\* in '+00:00' reaches it unchanged.
C10_OnlyTrailingZReplaced ==
    Returned =>
        LET t == arg.timestamp
        IN  /\ EndsWith(t, <<"Z">>) =>
                  result.normalised = Take(t, Len(t) - 1) \o UtcOffset
            /\ EndsWith(t, UtcOffset) => result.normalised = t

=============================================================================
